---- MODULE Spec2Model ----
(***************************************************************************)
(* Model of the tree generation / navigation code of the repository:       *)
(*   TreeGenerator  (src/utils/tree-optimizer.ts, edge function part)       *)
(*   TreeOptimizer  (src/utils/tree-optimizer.ts)                           *)
(*   TreeNavigator  (src/unnamed/part_000)                                  *)
(* A flat collection of raw records is turned into an OptimizedTree by a    *)
(* depth-first build; the tree is then validated and navigated.             *)
(*                                                                          *)
(* Abstractions: a record's `sequence` is kept only as its emptiness (the   *)
(* only thing root resolution reads); `path`, `street`, `generatedAt`,      *)
(* `version` and `playerCount` are not modelled; error strings are kept as  *)
(* records of their parts.  `player` and the hand payload are fixed per     *)
(* identifier to keep the input set small.  A target that is not a string   *)
(* occurs only in the collections of TypedFamily.                           *)
(***************************************************************************)
EXTENDS Integers, Sequences, FiniteSets, TLC

VARIABLES nodes, processedNodes, tree, nodeCache, out, treeCache, setLog

vars == <<nodes, processedNodes, tree, nodeCache, out, treeCache, setLog>>

\* TreeCache's static map `cache`, and the keys handed to TreeCache.set since the
\* map was last empty (kept to state the eviction order)
cacheVars == <<treeCache, setLog>>

(***************************************************************************)
(* Bounds of the input set.                                                 *)
(***************************************************************************)
\* most actions of a whole collection: plain actions, record "0" first
MaxEdges == 3
\* most actions of a whole collection: actions of every kind, record "0" first
LabelEdges == 2
\* most actions of a whole collection: free iteration order and sequences
RootEdges == 1

\* capacity of TreeCache (maxSize, 100 in the source), scaled down so that
\* a full cache and an eviction are within reach
maxSize == 3

\* largest amount formatted, in steps of 500 (6000 steps: 3,000,000)
MaxAmountSteps == 6000

\* record identifiers; "0" and "1" are integer-like object keys
Ids == {"0", "1", "a"}
\* an identifier that is never a record nor a node
Stray == "zz"
\* action.node missing (undefined)
Absent == "undefined"
\* parentId of the root
Null == "null"

(***************************************************************************)
(* Generic helpers over ordered maps (a JS Map / object is a sequence of    *)
(* entries in iteration order, each entry carrying its key in `id`).        *)
(***************************************************************************)
Range(s) == {s[i] : i \in DOMAIN s}

KeysOf(m) == {m[i].id : i \in DOMAIN m}

MapHas(m, id) == \E i \in DOMAIN m : m[i].id = id

MapGet(m, id) == m[CHOOSE i \in DOMAIN m : m[i].id = id]

\* Map.prototype.set: an existing key keeps its position, a new key is appended
MapSet(m, e) ==
  IF MapHas(m, e.id)
  THEN [i \in DOMAIN m |-> IF m[i].id = e.id THEN e ELSE m[i]]
  ELSE Append(m, e)

\* a target that is a number and not a string (truthy, and equal to no key)
NumberTarget == "number 1"

\* typeof x === 'string'
IsString(x) == x # NumberTarget

\* truthiness of an optional identifier (undefined is falsy)
Truthy(x) == x # Absent /\ x # Null /\ x # ""

RECURSIVE SeqSum(_)
SeqSum(s) == IF s = <<>> THEN 0 ELSE Head(s) + SeqSum(Tail(s))

\* number of positions of s holding x
Occurrences(s, x) == Cardinality({i \in DOMAIN s : s[i] = x})

(***************************************************************************)
(* Input collections.                                                       *)
(***************************************************************************)
\* (type, amount) pairs an action may carry
Kinds == {[type |-> "C", amount |-> 0], [type |-> "R", amount |-> 500]}

\* acting player and hand payload size of a record, fixed per identifier
PlayerOf(id) == IF id = "0" THEN 0 ELSE IF id = "1" THEN 1 ELSE 2

HandsOf(id) == IF id = "1" THEN 1 ELSE 0

RawActions(kinds) ==
  {[type |-> k.type, amount |-> k.amount, node |-> n] :
     k \in kinds, n \in Ids \cup {Absent}}

RawRecord(id, seqEmpty, acts) ==
  [id |-> id, seqEmpty |-> seqEmpty, player |-> PlayerOf(id),
   hands |-> HandsOf(id), actions |-> acts]

\* the records a key can have with exactly j actions
RecordsFor(id, j, kinds, seqChoices) ==
  {RawRecord(id, e, acts) : e \in seqChoices, acts \in [1..j -> RawActions(kinds)]}

\* all collections over the key order `keys` with at most `budget` actions
RECURSIVE CollectionsOver(_, _, _, _)
CollectionsOver(keys, budget, kinds, free) ==
  IF keys = <<>> THEN {<<>>}
  ELSE UNION {
         {<<r>> \o rest :
            r \in RecordsFor(Head(keys), j, kinds,
                             IF free THEN BOOLEAN ELSE {Head(keys) = "0"}),
            rest \in CollectionsOver(Tail(keys), budget - j, kinds, free)} :
         j \in 0..budget}

\* every iteration order of every subset of the identifiers
KeyOrders ==
  {s \in UNION {[1..n -> Ids] : n \in 0..Cardinality(Ids)} :
     \A i, j \in DOMAIN s : i # j => s[i] # s[j]}

CanonicalOrders == {<<"0">>, <<"0", "1">>, <<"0", "1", "a">>}

PlainKinds == {[type |-> "C", amount |-> 0]}

\* free iteration order and free sequences, few plain actions
RootFamily ==
  UNION {CollectionsOver(k, RootEdges, PlainKinds, TRUE) : k \in KeyOrders}

\* record "0" first with the only empty sequence, more plain actions
BuildFamily ==
  UNION {CollectionsOver(k, MaxEdges, PlainKinds, FALSE) : k \in CanonicalOrders}

\* record "0" first with the only empty sequence, actions of every kind
LabelFamily ==
  UNION {CollectionsOver(k, LabelEdges, Kinds, FALSE) : k \in CanonicalOrders}

Collections == RootFamily \cup BuildFamily \cup LabelFamily

(***************************************************************************)
(* TreeGenerator.findRootNode                                               *)
(***************************************************************************)
RootNotFound == "Error: Could not find root node"

\* mutant: the test for the conventional root key is missing
IsRootCandidateEmptyOnly(rec) == rec.seqEmpty

\* the loop condition of the first pass
IsRootCandidate(rec) == rec.seqEmpty \/ rec.id = "0"

\* mutant: the pass over the records starts one record late
ChildNodesSkipFirst(m) ==
  {n \in UNION {{m[i].actions[j].node : j \in DOMAIN m[i].actions} :
                  i \in DOMAIN m \ {1}} :
     Truthy(n)}

\* identifiers referenced as a child by some action
ChildNodes(m) ==
  {n \in UNION {{m[i].actions[j].node : j \in DOMAIN m[i].actions} : i \in DOMAIN m} :
     Truthy(n)}

findRootNode(m) ==
  LET cand == {i \in DOMAIN m : IsRootCandidate(m[i])}
      unref == {i \in DOMAIN m : m[i].id \notin ChildNodes(m)}
      first(S) == CHOOSE i \in S : \A j \in S : i <= j
  IN  IF cand # {} THEN m[first(cand)].id
      ELSE IF unref # {} THEN m[first(unref)].id
      ELSE RootNotFound

(***************************************************************************)
(* TreeGenerator.buildTreeStructure                                         *)
(***************************************************************************)
\* mutant: the last action is not looked at
ExtractChildrenButLast(actions) ==
  LET withNode == SelectSeq(SubSeq(actions, 1, Len(actions) - 1),
                            LAMBDA a : Truthy(a.node) /\ IsString(a.node))
  IN  [i \in DOMAIN withNode |-> withNode[i].node]

\* mutant: the targets are collected last action first
ExtractChildrenReversed(actions) ==
  LET withNode == SelectSeq(actions, LAMBDA a : Truthy(a.node) /\ IsString(a.node))
  IN  [i \in DOMAIN withNode |-> withNode[Len(withNode) + 1 - i].node]

\* children: the targets of the actions that carry one which is a string
\* (action.node && typeof action.node === 'string'), in action order
ExtractChildren(actions) ==
  LET withNode == SelectSeq(actions, LAMBDA a : Truthy(a.node) /\ IsString(a.node))
  IN  [i \in DOMAIN withNode |-> withNode[i].node]

\* the copy of a raw action kept in the tree node
CopyAction(a) == [type |-> a.type, amount |-> a.amount, node |-> a.node]

MakeTreeNode(raw, nodeId, parentId, depth) ==
  LET children == ExtractChildren(raw.actions)
  IN  [id |-> nodeId,
       parentId |-> parentId,
       player |-> raw.player,
       actions |-> [i \in DOMAIN raw.actions |-> CopyAction(raw.actions[i])],
       children |-> children,
       depth |-> depth,
       isTerminal |-> (Len(children) = 0),
       hasHandData |-> (raw.hands > 0)]

\* mutant: a record counts as processed only once its node has a parent
SkipNodeUntilParented(m, processed, nodeId) ==
  \/ ~MapHas(m, nodeId)
  \/ MapHas(processed, nodeId) /\ MapGet(processed, nodeId).parentId # Null

\* the early return: unknown record, or record already processed
SkipNode(m, processed, nodeId) == ~MapHas(m, nodeId) \/ MapHas(processed, nodeId)

\* mutant: the child is handed the parent of the current node
ChildParentOwn(nodeId, parentId) == parentId

\* mutant: the child is handed the depth of the current node
ChildDepthSame(depth) == depth

\* the parent and depth handed to the recursive call for a child
ChildParent(nodeId, parentId) == nodeId

ChildDepth(depth) == depth + 1

\* mutant: a record met again is emitted again, over its first node,
\* before the traversal stops
ReturnEarlyOverwrite(m, processed, nodeId, parentId, depth) ==
  IF MapHas(m, nodeId)
  THEN MapSet(processed, MakeTreeNode(MapGet(m, nodeId), nodeId, parentId, depth))
  ELSE processed

\* what the early return leaves in processedNodes: nothing is emitted
ReturnEarly(m, processed, nodeId, parentId, depth) == processed

RECURSIVE buildTreeStructure(_, _, _, _, _)
RECURSIVE BuildChildren(_, _, _, _, _, _)
buildTreeStructure(m, processed, nodeId, parentId, depth) ==
  IF SkipNode(m, processed, nodeId)
  THEN ReturnEarly(m, processed, nodeId, parentId, depth)
  ELSE LET treeNode == MakeTreeNode(MapGet(m, nodeId), nodeId, parentId, depth)
       IN  BuildChildren(m, MapSet(processed, treeNode), treeNode.children, 1,
                         ChildParent(nodeId, parentId), ChildDepth(depth))

\* children.forEach(childId => buildTreeStructure(childId, nodeId, depth + 1))
BuildChildren(m, processed, children, i, parentId, depth) ==
  IF i > Len(children) THEN processed
  ELSE BuildChildren(m, buildTreeStructure(m, processed, children[i], parentId, depth),
                     children, i + 1, parentId, depth)

(***************************************************************************)
(* TreeGenerator.generateTree                                               *)
(***************************************************************************)
\* integer-like keys of the identifier pool, ascending
IndexKeys == <<"0", "1">>

\* Object.fromEntries / Object.entries: integer-like keys first, ascending,
\* then the other keys in insertion order
ObjectOrder(m) ==
  LET idx == {i \in DOMAIN IndexKeys : MapHas(m, IndexKeys[i])}
      RECURSIVE Pick(_)
      Pick(i) == IF i > Len(IndexKeys) THEN <<>>
                 ELSE (IF i \in idx THEN <<MapGet(m, IndexKeys[i])>> ELSE <<>>)
                      \o Pick(i + 1)
  IN  Pick(1) \o SelectSeq(m, LAMBDA e : e.id \notin Range(IndexKeys))

RECURSIVE SeqMax(_)
SeqMax(s) == IF Len(s) = 1 THEN Head(s)
             ELSE LET r == SeqMax(Tail(s)) IN IF Head(s) > r THEN Head(s) ELSE r

NoTree == [nodes |-> <<>>, root |-> Null, maxDepth |-> 0,
           metadata |-> [totalNodes |-> 0, terminalNodes |-> 0]]

MakeTree(processed, rootId) ==
  [nodes |-> ObjectOrder(processed),
   root |-> rootId,
   maxDepth |-> SeqMax([i \in DOMAIN processed |-> processed[i].depth]),
   metadata |-> [totalNodes |-> Len(processed),
                 terminalNodes |->
                   Len(SelectSeq(processed, LAMBDA n : n.isTerminal))]]

\* result of the last operation
Result(op, arg, t, ok, items, extra) ==
  [op |-> op, arg |-> arg, t |-> t, ok |-> ok, items |-> items, extra |-> extra]

\* no call has returned since the caller took the last result
NoResult == Result("none", "", NoTree, TRUE, <<>>, "")

\* calls are synchronous: one is made once the result of the last is taken
Idle == out = NoResult

\* the caller takes the result of the last call
TakeResult ==
  /\ ~Idle
  /\ out' = NoResult
  /\ UNCHANGED <<nodes, processedNodes, tree, nodeCache, cacheVars>>

\* which build this is: the first, one more on the same generator, or one
\* by a fresh generator after a tree was returned
BuildTag(fresh) ==
  IF tree = NoTree THEN "first" ELSE IF fresh THEN "rebuilt" ELSE "again"

\* generateTree() on a generator whose processedNodes is `processed`
Generate(processed, tag) ==
  LET rootId == findRootNode(nodes)
  IN  IF rootId = RootNotFound
      THEN /\ out' = Result("generateTree", tag, NoTree, FALSE, <<>>, RootNotFound)
           /\ UNCHANGED <<nodes, processedNodes, tree, nodeCache, cacheVars>>
      ELSE /\ processedNodes' = buildTreeStructure(nodes, processed, rootId, Null, 0)
           /\ tree' = MakeTree(processedNodes', rootId)
           /\ out' = Result("generateTree", tag, tree', TRUE, <<>>, "")
           /\ UNCHANGED <<nodes, nodeCache, cacheVars>>

\* generateTree() on the generator at hand
GenerateTree == Idle /\ Generate(processedNodes, BuildTag(FALSE))

\* the request handler: new TreeGenerator(zipData).generateTree()
Serve == Idle /\ Generate(<<>>, BuildTag(TRUE))

(***************************************************************************)
(* TreeOptimizer.validateTree                                               *)
(***************************************************************************)
\* one entry of the error list, kept as the parts of its message
Error(kind, nodeId, ref, index) ==
  [kind |-> kind, node |-> nodeId, ref |-> ref, index |-> index]

RootErrors(t) ==
  IF ~MapHas(t.nodes, t.root) THEN <<Error("root", t.root, t.root, 0)>> ELSE <<>>

ParentErrors(t, node) ==
  IF Truthy(node.parentId) /\ ~MapHas(t.nodes, node.parentId)
  THEN <<Error("parent", node.id, node.parentId, 0)>> ELSE <<>>

\* mutant: the scan of the children stops at the first missing one
ChildErrorsFirstOnly(t, node) ==
  LET bad == SelectSeq(node.children, LAMBDA c : ~MapHas(t.nodes, c))
  IN  IF bad = <<>> THEN <<>> ELSE <<Error("child", node.id, bad[1], 0)>>

\* one error per children entry that is no node
ChildErrors(t, node) ==
  LET bad == SelectSeq(node.children, LAMBDA c : ~MapHas(t.nodes, c))
  IN  [i \in DOMAIN bad |-> Error("child", node.id, bad[i], 0)]

\* one error per action whose target is no node, with the action's index
RECURSIVE ActionErrorsFrom(_, _, _)
ActionErrorsFrom(t, node, i) ==
  IF i > Len(node.actions) THEN <<>>
  ELSE (IF Truthy(node.actions[i].node) /\ ~MapHas(t.nodes, node.actions[i].node)
        THEN <<Error("action", node.id, node.actions[i].node, i - 1)>> ELSE <<>>)
       \o ActionErrorsFrom(t, node, i + 1)

ActionErrors(t, node) == ActionErrorsFrom(t, node, 1)

\* mutant: the parent's depth is compared without the increment
DepthErrorsSameDepth(t, node) ==
  IF Truthy(node.parentId) /\ MapHas(t.nodes, node.parentId)
     /\ MapGet(t.nodes, node.parentId).depth # node.depth
  THEN <<Error("depth", node.id, node.parentId, 0)>> ELSE <<>>

DepthErrors(t, node) ==
  IF Truthy(node.parentId) /\ MapHas(t.nodes, node.parentId)
     /\ MapGet(t.nodes, node.parentId).depth + 1 # node.depth
  THEN <<Error("depth", node.id, node.parentId, 0)>> ELSE <<>>

NodeErrors(t, node) ==
  ParentErrors(t, node) \o ChildErrors(t, node) \o ActionErrors(t, node)
    \o DepthErrors(t, node)

RECURSIVE AllNodeErrors(_, _)
AllNodeErrors(t, i) ==
  IF i > Len(t.nodes) THEN <<>>
  ELSE NodeErrors(t, t.nodes[i]) \o AllNodeErrors(t, i + 1)

\* mutant: the report stops at the first violation
validateTreeFirstError(t) ==
  LET errors == RootErrors(t) \o AllNodeErrors(t, 1)
  IN  [isValid |-> (Len(errors) = 0), errors |-> SubSeq(errors, 1, 1)]

validateTree(t) ==
  LET errors == RootErrors(t) \o AllNodeErrors(t, 1)
  IN  [isValid |-> (Len(errors) = 0), errors |-> errors]

\* trees handed to validateTree besides the built one: a children entry
\* added to one node, or every action target dropped (children kept)
WithChild(t, nodeId, c) ==
  [t EXCEPT !.nodes = [i \in DOMAIN t.nodes |->
     IF t.nodes[i].id = nodeId
     THEN [t.nodes[i] EXCEPT !.children = Append(@, c)]
     ELSE t.nodes[i]]]

WithoutTargets(t) ==
  [t EXCEPT !.nodes = [i \in DOMAIN t.nodes |->
     [t.nodes[i] EXCEPT !.actions =
        [j \in DOMAIN @ |-> [@[j] EXCEPT !.node = Absent]]]]]

TreeInputs(t) ==
  {t, WithoutTargets(t)} \cup {WithChild(t, n, Stray) : n \in KeysOf(t.nodes)}

\* mutant: the validation also cleans up: it removes from the tree the
\* children entries that are no node
ValidateTreeCleaning ==
  /\ Idle
  /\ tree # NoTree
  /\ LET r == validateTree(tree)
     IN  out' = Result("validateTree", "", tree, r.isValid, r.errors, "")
  /\ tree' = [tree EXCEPT !.nodes = [i \in DOMAIN tree.nodes |->
       [tree.nodes[i] EXCEPT !.children =
          SelectSeq(tree.nodes[i].children, LAMBDA c : MapHas(tree.nodes, c))]]]
  /\ UNCHANGED <<nodes, processedNodes, nodeCache, cacheVars>>

ValidateTree ==
  /\ Idle
  /\ tree # NoTree
  /\ \E t \in TreeInputs(tree) :
       LET r == validateTree(t)
       IN  out' = Result("validateTree", "", t, r.isValid, r.errors, "")
  /\ UNCHANGED <<nodes, processedNodes, tree, nodeCache, cacheVars>>

(***************************************************************************)
(* PathFormatter: formatAmount, formatActionLabel                           *)
(***************************************************************************)
Digit == <<"0", "1", "2", "3", "4", "5", "6", "7", "8", "9">>

\* Number.prototype.toString of a non-negative integer
RECURSIVE NatToString(_)
NatToString(n) ==
  IF n < 10 THEN Digit[n + 1] ELSE NatToString(n \div 10) \o Digit[(n % 10) + 1]

RECURSIVE Log2Floor(_)
Log2Floor(n) == IF n < 2 THEN 0 ELSE 1 + Log2Floor(n \div 2)

Pow2Mod5(e) == <<1, 2, 4, 3>>[(e % 4) + 1]

\* whether the double nearest to t/20 (t odd, t/20 >= 1) is at least t/20:
\* it is exact when t/20 is a multiple of 1/4, and otherwise lies above when
\* the 53-bit significand t * 2^(e-2) / 5 rounds up
TieRoundsUp(t) ==
  LET m == Log2Floor(t \div 20)
      frac == ((t % 5) * Pow2Mod5(50 - m)) % 5
  IN  t % 5 = 0 \/ frac >= 3

\* mutant: the tenths are cut off, not rounded
TenthsOfMillionsCut(amount) == amount \div 100000

\* (amount / 1000000).toFixed(1), in tenths
TenthsOfMillions(amount) ==
  IF amount % 100000 = 50000
  THEN (amount \div 100000) + (IF TieRoundsUp(amount \div 50000) THEN 1 ELSE 0)
  ELSE (amount + 50000) \div 100000

formatAmount(amount) ==
  IF amount >= 1000000
  THEN LET n == TenthsOfMillions(amount)
       IN  NatToString(n \div 10) \o "." \o Digit[(n % 10) + 1] \o "M"
  ELSE IF amount >= 1000
  THEN NatToString((amount + 500) \div 1000) \o "K"
  ELSE NatToString(amount)

formatActionLabel(type, amount) ==
  CASE type = "F" -> "Fold"
    [] type = "C" -> "Call"
    [] type = "X" -> "Check"
    [] type = "R" -> IF amount > 0 THEN "Raise " \o formatAmount(amount) ELSE "Raise"
    [] OTHER -> type

(***************************************************************************)
(* TreeNavigator                                                            *)
(***************************************************************************)
\* constructor: buildCache() copies every entry of tree.nodes
buildCache(t) == t.nodes

ConstructNavigator ==
  /\ Idle
  /\ tree # NoTree
  /\ nodeCache' = buildCache(tree)
  /\ UNCHANGED <<nodes, processedNodes, tree, out, cacheVars>>

Breadcrumb(nodeId, label, player, action) ==
  [nodeId |-> nodeId, label |-> label, player |-> player, action |-> action]

\* parentNode.actions.find(action => action.node === currentNode.id)
ActionsTo(parentNode, childId) ==
  SelectSeq(parentNode.actions, LAMBDA a : a.node = childId)

\* mutant: the item is tagged with the child instead of the parent
HopCrumbsChildId(parentNode, cur) ==
  LET found == ActionsTo(parentNode, cur.id)
  IN  IF found = <<>> THEN <<>>
      ELSE <<Breadcrumb(cur.id,
                        formatActionLabel(found[1].type, found[1].amount),
                        parentNode.player, found[1].type)>>

\* the item a hop contributes, none when the parent has no such action
HopCrumbs(parentNode, cur) ==
  LET found == ActionsTo(parentNode, cur.id)
  IN  IF found = <<>> THEN <<>>
      ELSE <<Breadcrumb(cur.parentId,
                        formatActionLabel(found[1].type, found[1].amount),
                        parentNode.player, found[1].type)>>

RootCrumbs(cur) == <<Breadcrumb(cur.id, "Start", cur.player, "ROOT")>>

\* marks a walk that never leaves the while loop (a cycle of parentId links)
Hang == <<Breadcrumb("", "never returns", 0, "")>>

\* the while loop from `cur` on, with `crumbs` collected so far; `fuel`
\* counts the hops left before a node must have repeated
RECURSIVE WalkUp(_, _, _, _)
WalkUp(cache, cur, crumbs, fuel) ==
  IF Truthy(cur.parentId)
  THEN IF ~MapHas(cache, cur.parentId) THEN crumbs
       ELSE IF fuel = 0 THEN Hang
       ELSE LET parentNode == MapGet(cache, cur.parentId)
            IN  WalkUp(cache, parentNode, HopCrumbs(parentNode, cur) \o crumbs, fuel - 1)
  ELSE RootCrumbs(cur) \o crumbs

buildBreadcrumbs(cache, nodeId) ==
  IF ~MapHas(cache, nodeId) THEN <<>>
  ELSE WalkUp(cache, MapGet(cache, nodeId), <<>>, Len(cache))

NavigationAction(a) ==
  [label |-> formatActionLabel(a.type, a.amount), targetNode |-> a.node,
   type |-> a.type, amount |-> a.amount, isAllIn |-> FALSE]

getAvailableActions(cache, nodeId) ==
  IF ~MapHas(cache, nodeId) THEN <<>>
  ELSE LET withNode == SelectSeq(MapGet(cache, nodeId).actions,
                                 LAMBDA a : Truthy(a.node))
       IN  [i \in DOMAIN withNode |-> NavigationAction(withNode[i])]

\* getNavigationPath(nodeId): ok = FALSE stands for the null result
GetNavigationPath ==
  /\ Idle
  /\ nodeCache # <<>>
  /\ \E nodeId \in Ids \cup {Stray} :
       out' = IF ~MapHas(nodeCache, nodeId)
              THEN Result("getNavigationPath", nodeId, NoTree, FALSE, <<>>, <<>>)
              ELSE Result("getNavigationPath", nodeId, NoTree, TRUE,
                          buildBreadcrumbs(nodeCache, nodeId),
                          getAvailableActions(nodeCache, nodeId))
  /\ UNCHANGED <<nodes, processedNodes, tree, nodeCache, cacheVars>>

Init ==
  /\ nodes \in Collections
  /\ processedNodes = <<>>
  /\ tree = NoTree
  /\ nodeCache = <<>>
  /\ out = NoResult
  /\ treeCache = <<>>
  /\ setLog = <<>>

Next ==
  \/ GenerateTree
  \/ Serve
  \/ ValidateTree
  \/ ConstructNavigator
  \/ GetNavigationPath
  \/ TakeResult

Spec == Init /\ [][Next]_vars

(***************************************************************************)
(* Vocabulary of the properties, stated on the collection and the tree and  *)
(* not through the operators of the build.                                  *)
(***************************************************************************)
\* identifiers a record's actions carry as target
TargetsOf(rec) == {rec.actions[j].node : j \in DOMAIN rec.actions} \ {Absent}

\* number of actions of a node or record that carry the target c
ActionsWithTarget(rec, c) ==
  Cardinality({j \in DOMAIN rec.actions : rec.actions[j].node = c})

\* records reachable from S by following targets that exist in the collection
RECURSIVE ReachableFrom(_, _)
ReachableFrom(m, S) ==
  LET more == S \cup (UNION {TargetsOf(MapGet(m, id)) : id \in S} \cap KeysOf(m))
  IN  IF more = S THEN S ELSE ReachableFrom(m, more)

\* the records the build reaches: those reachable from the resolved root
Reached(m) == ReachableFrom(m, {tree.root})

\* some record reachable from the resolved root has an action whose target
\* is no record
DanglingReached(m) ==
  /\ findRootNode(m) # RootNotFound
  /\ \E id \in ReachableFrom(m, {findRootNode(m)}) :
       TargetsOf(MapGet(m, id)) \ KeysOf(m) # {}

\* every action target of the collection is a key of the collection
SelfConsistent(m) == \A i \in DOMAIN m : TargetsOf(m[i]) \subseteq KeysOf(m)

\* number of children entries of the whole tree that name c
IncomingLinks(t, c) ==
  SeqSum([i \in DOMAIN t.nodes |-> Occurrences(t.nodes[i].children, c)])

\* nodes reachable from S by one or more children links
RECURSIVE Descendants(_, _)
Descendants(t, S) ==
  LET step(X) == UNION {Range(MapGet(t.nodes, id).children) : id \in X}
                   \cap KeysOf(t.nodes)
      more == S \cup step(S)
  IN  IF more = S THEN S ELSE Descendants(t, more)

ChildLinksAcyclic(t) ==
  \A id \in KeysOf(t.nodes) :
    id \notin Descendants(t, Range(MapGet(t.nodes, id).children) \cap KeysOf(t.nodes))

\* each non-root node occurs in the children list of its parent
InParentsChildren(t) ==
  \A i \in DOMAIN t.nodes :
    t.nodes[i].id # t.root =>
      /\ MapHas(t.nodes, t.nodes[i].parentId)
      /\ t.nodes[i].id \in Range(MapGet(t.nodes, t.nodes[i].parentId).children)

\* the children links form a proper tree
ProperTree(t) ==
  /\ ChildLinksAcyclic(t)
  /\ InParentsChildren(t)
  /\ \A i \in DOMAIN t.nodes :
       t.nodes[i].id # t.root => IncomingLinks(t, t.nodes[i].id) = 1

\* among the records reached no record is targeted twice and the root never
TrueTreeInput(m) ==
  \A id \in Reached(m) :
    SeqSum([i \in DOMAIN m |->
              IF m[i].id \in Reached(m) THEN ActionsWithTarget(m[i], id) ELSE 0])
      = (IF id = tree.root THEN 0 ELSE 1)

\* some node is the target of an action of a node that is not its parent,
\* or of two actions: the collection is no true tree
SharedOrCyclic(t) ==
  \E i \in DOMAIN t.nodes : IncomingLinks(t, t.nodes[i].id) >= 2
                            \/ IncomingLinks(t, t.root) >= 1

\* ---- depth-first order, stated on paths --------------------------------
\* position of the first action of record `id` whose target is c
FirstActionTo(m, id, c) ==
  LET rec == MapGet(m, id)
  IN  CHOOSE j \in DOMAIN rec.actions :
        /\ rec.actions[j].node = c
        /\ \A k \in DOMAIN rec.actions : rec.actions[k].node = c => j <= k

\* simple paths of records from the root to v along action targets
SimplePaths(m, v) ==
  {p \in UNION {[1..n -> Reached(m)] : n \in 1..Cardinality(Reached(m))} :
     /\ p[1] = tree.root
     /\ p[Len(p)] = v
     /\ \A i, j \in DOMAIN p : i # j => p[i] # p[j]
     /\ \A i \in 1..(Len(p) - 1) : p[i + 1] \in TargetsOf(MapGet(m, p[i]))}

\* the action positions taken along a path
Choices(m, p) == [i \in 1..(Len(p) - 1) |-> FirstActionTo(m, p[i], p[i + 1])]

\* a is taken before b by a traversal that tries the actions in order
Earlier(a, b) ==
  \E k \in DOMAIN a \cap DOMAIN b :
    a[k] < b[k] /\ \A j \in 1..(k - 1) : a[j] = b[j]

\* the path by which a depth-first traversal first reaches v
FirstPath(m, v) ==
  LET paths == SimplePaths(m, v)
      choice == [p \in paths |-> Choices(m, p)]
  IN  CHOOSE p \in paths :
        \A q \in paths : q # p => Earlier(choice[p], choice[q])

\* generateTree has just returned a tree: tree, also held in out.t
Returned == out.op = "generateTree" /\ out.ok /\ out.t = tree

\* ---- C1 -----------------------------------------------------------------
\* C1: in every tree returned by generateTree exactly one node has
\* parentId = null, it is tree.root at depth 0, and every other node's
\* parentId names a node whose depth is one less.
C1_SingleRootAndDepths ==
  Returned =>
    LET N == tree.nodes
    IN  /\ Cardinality({i \in DOMAIN N : N[i].parentId = Null}) = 1
        /\ MapHas(N, tree.root)
        /\ MapGet(N, tree.root).parentId = Null
        /\ MapGet(N, tree.root).depth = 0
        /\ \A i \in DOMAIN N :
             N[i].parentId # Null =>
               /\ MapHas(N, N[i].parentId)
               /\ MapGet(N, N[i].parentId).depth = N[i].depth - 1

C1_Witness ==
  /\ Returned
  /\ Len(tree.nodes) = 3
  /\ tree.maxDepth = 2
  /\ \E i \in DOMAIN tree.nodes :
       tree.nodes[i].depth = 2 /\ tree.root \in Range(tree.nodes[i].children)

\* ---- C2 -----------------------------------------------------------------
\* C2 as stated: a build that reaches an action whose target is absent from
\* the collection fails and returns no tree.
C2_DanglingFails ==
  (out.op = "generateTree" /\ DanglingReached(nodes)) => (~out.ok /\ tree = NoTree)

\* C2 amended: the build does not fail on an absent target; it returns a
\* tree with a node for every record reached, no node for the absent
\* identifier, and the identifier kept in the children list of the node
\* whose action carries it.
C2_DanglingKept ==
  (out.op = "generateTree" /\ DanglingReached(nodes)) =>
    /\ out.ok
    /\ out.t = tree
    /\ tree # NoTree
    /\ \A id \in ReachableFrom(nodes, {tree.root}) :
         /\ MapHas(tree.nodes, id)
         /\ \A c \in TargetsOf(MapGet(nodes, id)) \ KeysOf(nodes) :
              /\ ~MapHas(tree.nodes, c)
              /\ Occurrences(MapGet(tree.nodes, id).children, c)
                   = ActionsWithTarget(MapGet(nodes, id), c)

C2_Witness ==
  /\ out.op = "generateTree"
  /\ out.ok
  /\ Len(tree.nodes) = 2
  /\ \E i \in DOMAIN tree.nodes :
       /\ tree.nodes[i].depth = 1
       /\ \E c \in Range(tree.nodes[i].children) : c \notin KeysOf(nodes)

\* ---- C3 -----------------------------------------------------------------
\* C3 as stated: in every built tree the children links are acyclic and
\* each non-root node occurs in exactly one children list, its parent's,
\* exactly once, whatever the collection's targets.
C3_AlwaysProperTree == Returned => ProperTree(tree)

\* C3 amended: in every built tree each non-root node occurs in the
\* children list of the node named by its parentId, and the children links
\* form a proper tree exactly when, among the records reached, none is
\* targeted by more than one action and the root by none.
C3_ProperTreeIffTrueTree ==
  Returned =>
    /\ InParentsChildren(tree)
    /\ ProperTree(tree) <=> TrueTreeInput(nodes)

C3_Witness ==
  /\ Returned
  /\ Len(tree.nodes) = 3
  /\ ~TrueTreeInput(nodes)
  /\ ~ChildLinksAcyclic(tree)
  /\ \E i \in DOMAIN tree.nodes :
       /\ tree.nodes[i].depth = 2
       /\ IncomingLinks(tree, tree.nodes[i].id) = 2

\* ---- C4 -----------------------------------------------------------------
\* C4: the nodes of the built tree are exactly the records reachable from
\* the root, one node each, and a node's parentId and depth are those of
\* the path by which a depth-first traversal in action order first reaches
\* it.
C4_ReachableOnceFirstPath ==
  Returned =>
    LET N == tree.nodes
    IN  /\ KeysOf(N) = Reached(nodes)
        /\ Len(N) = Cardinality(Reached(nodes))
        /\ \A i \in DOMAIN N :
             LET p == FirstPath(nodes, N[i].id)
             IN  /\ N[i].depth = Len(p) - 1
                 /\ N[i].parentId = (IF Len(p) = 1 THEN Null ELSE p[Len(p) - 1])

\* a record reached first at depth 2 although the root targets it directly
C4_Witness ==
  /\ Returned
  /\ \E i \in DOMAIN tree.nodes :
       /\ tree.nodes[i].depth = 2
       /\ tree.nodes[i].id \in TargetsOf(MapGet(nodes, tree.root))

\* ---- C5 -----------------------------------------------------------------
\* C5 as stated: when some record has an empty sequence, findRootNode
\* returns the first record with an empty sequence, wherever record "0" is.
C5_EmptySequenceFirst ==
  (out.op = "generateTree" /\ \E i \in DOMAIN nodes : nodes[i].seqEmpty) =>
    /\ out.ok
    /\ \E i \in DOMAIN nodes :
         /\ nodes[i].id = out.t.root
         /\ nodes[i].seqEmpty
         /\ \A j \in 1..(i - 1) : ~nodes[j].seqEmpty

\* C5 amended: when some record has an empty sequence or is named "0",
\* findRootNode returns the first record in iteration order that has an
\* empty sequence or is named "0"; a record "0" with a non-empty sequence
\* is returned when it precedes every record with an empty sequence.
C5_FirstEmptyOrZero ==
  (out.op = "generateTree"
     /\ \E i \in DOMAIN nodes : nodes[i].seqEmpty \/ nodes[i].id = "0") =>
    /\ out.ok
    /\ \E i \in DOMAIN nodes :
         /\ nodes[i].id = out.t.root
         /\ nodes[i].seqEmpty \/ nodes[i].id = "0"
         /\ \A j \in 1..(i - 1) : ~nodes[j].seqEmpty /\ nodes[j].id # "0"

C5_Witness ==
  /\ out.op = "generateTree"
  /\ out.ok
  /\ out.t.root = "0"
  /\ ~MapGet(nodes, "0").seqEmpty
  /\ \E i \in DOMAIN nodes : nodes[i].seqEmpty

\* ---- C6 -----------------------------------------------------------------
\* C6: with no empty sequence and no record "0", findRootNode returns a
\* record that no action targets, and fails with the root-not-found error
\* exactly when there is none; a returned root is always a key.
C6_UnreferencedOrError ==
  out.op = "generateTree" =>
    LET targeted == UNION {TargetsOf(nodes[i]) : i \in DOMAIN nodes}
        free == KeysOf(nodes) \ targeted
        fallback == \A i \in DOMAIN nodes : ~nodes[i].seqEmpty /\ nodes[i].id # "0"
    IN  /\ out.ok => out.t.root \in KeysOf(nodes)
        /\ fallback =>
             /\ out.ok <=> free # {}
             /\ out.ok => out.t.root \in free
             /\ ~out.ok => out.extra = RootNotFound /\ tree = NoTree

\* the fallback finds the second record, the first being targeted by itself
C6_Witness ==
  /\ out.op = "generateTree"
  /\ out.ok
  /\ Len(nodes) = 2
  /\ \A i \in DOMAIN nodes : ~nodes[i].seqEmpty /\ nodes[i].id # "0"
  /\ out.t.root = nodes[2].id

\* ---- C7 -----------------------------------------------------------------
\* C7: validateTree applied to the tree generateTree returned for a
\* collection whose every action target is a key reports isValid = true and
\* no error.
C7_RoundTripValid ==
  (out.op = "validateTree" /\ out.t = tree /\ SelfConsistent(nodes)) =>
    out.ok /\ out.items = <<>>

C7_Witness ==
  /\ out.op = "validateTree"
  /\ out.t = tree
  /\ SelfConsistent(nodes)
  /\ out.ok
  /\ Len(tree.nodes) = 3
  /\ SharedOrCyclic(tree)

\* ---- C8 -----------------------------------------------------------------
\* C8: a build after the first, on the same generator or on a fresh one,
\* returns a tree identical to the one returned before.
C8_RebuildIdentical ==
  [][(tree # NoTree /\ out'.op = "generateTree") =>
       (out'.ok /\ out'.t = tree /\ tree' = tree)]_vars

C8_Witness ==
  /\ out.op = "generateTree"
  /\ out.arg = "again"
  /\ out.ok
  /\ Len(tree.nodes) = 3
  /\ SharedOrCyclic(tree)

\* ---- C9 -----------------------------------------------------------------
\* errors of the list that name node n and the missing identifier c
ErrorsNaming(errors, kinds, n, c) ==
  Cardinality({k \in DOMAIN errors :
                 errors[k].kind \in kinds /\ errors[k].node = n /\ errors[k].ref = c})

\* C9 as stated: a children entry that is no node makes the tree invalid,
\* and the error list holds exactly one error per such entry, not more,
\* also when the node's action carries the same identifier.
C9_OneErrorPerDanglingChild ==
  out.op = "validateTree" =>
    \A i \in DOMAIN out.t.nodes :
      \A c \in Range(out.t.nodes[i].children) \ KeysOf(out.t.nodes) :
        /\ ~out.ok
        /\ ErrorsNaming(out.items, {"parent", "child", "action", "depth"},
                        out.t.nodes[i].id, c)
             = Occurrences(out.t.nodes[i].children, c)

\* C9 amended: a children entry that is no node makes the tree invalid; the
\* error list holds exactly one child error per such entry, and one more
\* error, an action error, for every action of the node that carries the
\* same identifier as target.
C9_ChildAndActionErrors ==
  out.op = "validateTree" =>
    \A i \in DOMAIN out.t.nodes :
      \A c \in Range(out.t.nodes[i].children) \ KeysOf(out.t.nodes) :
        /\ ~out.ok
        /\ ErrorsNaming(out.items, {"child"}, out.t.nodes[i].id, c)
             = Occurrences(out.t.nodes[i].children, c)
        /\ ErrorsNaming(out.items, {"action"}, out.t.nodes[i].id, c)
             = ActionsWithTarget(out.t.nodes[i], c)
        /\ ErrorsNaming(out.items, {"parent", "child", "action", "depth"},
                        out.t.nodes[i].id, c)
             = Occurrences(out.t.nodes[i].children, c)
                 + ActionsWithTarget(out.t.nodes[i], c)

\* a built tree whose node carries the missing identifier twice, in the
\* children list and in the actions: four errors
C9_Witness ==
  /\ out.op = "validateTree"
  /\ out.t = tree
  /\ ~out.ok
  /\ Len(out.items) = 4
  /\ \E i \in DOMAIN tree.nodes :
       \E c \in Range(tree.nodes[i].children) \ KeysOf(tree.nodes) :
         /\ Occurrences(tree.nodes[i].children, c) = 2
         /\ ActionsWithTarget(tree.nodes[i], c) = 2

\* ---- C10 ----------------------------------------------------------------
\* the nodes from the root down to node `id` along parentId links
RECURSIVE AncestorChain(_, _)
AncestorChain(t, id) ==
  LET n == MapGet(t.nodes, id)
  IN  IF n.parentId = Null \/ n.depth = 0 THEN <<n>>
      ELSE Append(AncestorChain(t, n.parentId), n)

\* the label the kinds of Kinds are rendered with
ExpectedLabel(a) == IF a.type = "C" THEN "Call" ELSE "Raise 500"

\* C10: for a node n at depth d of a built tree the breadcrumbs have d + 1
\* items: the root item labelled "Start", then for each hop from an
\* ancestor P to its successor on the path an item with nodeId = P, P's
\* player and the label of P's first action targeting that successor.
C10_BreadcrumbsFollowParents ==
  (out.op = "getNavigationPath" /\ out.ok) =>
    LET chain == AncestorChain(tree, out.arg)
        d == MapGet(tree.nodes, out.arg).depth
        b == out.items
    IN  /\ Len(chain) = d + 1
        /\ Len(b) = d + 1
        /\ b[1].nodeId = tree.root
        /\ b[1].label = "Start"
        /\ \A k \in 2..Len(b) :
             LET P == chain[k - 1]
                 a == P.actions[CHOOSE j \in DOMAIN P.actions :
                        /\ P.actions[j].node = chain[k].id
                        /\ \A l \in 1..(j - 1) : P.actions[l].node # chain[k].id]
             IN  /\ b[k].nodeId = P.id
                 /\ b[k].player = P.player
                 /\ b[k].label = ExpectedLabel(a)
                 /\ b[k].action = a.type

\* the chain 0 -C,0-> 1 -R,500-> a
C10_Witness ==
  /\ out.op = "getNavigationPath"
  /\ out.arg = "a"
  /\ out.items = <<Breadcrumb("0", "Start", 0, "ROOT"),
                   Breadcrumb("0", "Call", 0, "C"),
                   Breadcrumb("1", "Raise 500", 1, "R")>>

(***************************************************************************)
(* TreeNavigator.navigateByPath                                             *)
(***************************************************************************)
\* identifiers handed to the queries: every record identifier and one that
\* is never a node
QueryIds == Ids \cup {Stray}

\* action types a caller asks for
ActionTypes == {k.type : k \in Kinds}

\* lists of action types, as long as the collection has actions
ActionPaths == UNION {[1..n -> ActionTypes] : n \in 0..LabelEdges}

\* mutant: the last matching action is followed
FoundActionLast(node, actionType) ==
  LET found == SelectSeq(node.actions,
                         LAMBDA a : a.type = actionType /\ Truthy(a.node))
  IN  IF found = <<>> THEN Absent ELSE found[Len(found)].node

\* node.actions.find(a => a.type === actionType && a.node), as its target;
\* Absent when find returns undefined
FoundAction(node, actionType) ==
  LET found == SelectSeq(node.actions,
                         LAMBDA a : a.type = actionType /\ Truthy(a.node))
  IN  IF found = <<>> THEN Absent ELSE found[1].node

\* the for loop from its i-th iteration on, currentNodeId being cur
RECURSIVE NavigateFrom(_, _, _, _)
NavigateFrom(c, cur, actionTypes, i) ==
  IF i > Len(actionTypes) THEN cur
  ELSE IF ~MapHas(c, cur) THEN Null
  ELSE LET target == FoundAction(MapGet(c, cur), actionTypes[i])
       IN  IF ~Truthy(target) THEN Null
           ELSE NavigateFrom(c, target, actionTypes, i + 1)

navigateByPath(c, startNodeId, actionTypes) ==
  NavigateFrom(c, startNodeId, actionTypes, 1)

\* navigateByPath(startNodeId, actionTypes): ok = FALSE stands for null
NavigateByPath ==
  /\ Idle
  /\ nodeCache # <<>>
  /\ \E startNodeId \in QueryIds, actionTypes \in ActionPaths :
       LET r == navigateByPath(nodeCache, startNodeId, actionTypes)
       IN  out' = Result("navigateByPath", startNodeId, NoTree, r # Null,
                         actionTypes, r)
  /\ UNCHANGED <<nodes, processedNodes, tree, nodeCache, cacheVars>>

\* the state after construction, the collection drawn from `family`
InitWith(family) ==
  /\ nodes \in family
  /\ processedNodes = <<>>
  /\ tree = NoTree
  /\ nodeCache = <<>>
  /\ out = NoResult
  /\ treeCache = <<>>
  /\ setLog = <<>>

NavInit == InitWith(LabelFamily)

NavNext ==
  \/ Serve
  \/ ConstructNavigator
  \/ NavigateByPath
  \/ TakeResult

NavSpec == NavInit /\ [][NavNext]_vars

\* b is the target of the first action of node a (in action order) that has
\* the type and carries a target
FirstTyped(c, a, b, type) ==
  /\ MapHas(c, a)
  /\ LET acts == MapGet(c, a).actions
         typed(j) == acts[j].type = type /\ acts[j].node # Absent
     IN  \E j \in DOMAIN acts :
           /\ typed(j)
           /\ acts[j].node = b
           /\ \A k \in 1..(j - 1) : ~typed(k)

\* the walks from `start` that take one such step per requested type
TypedWalks(c, start, types) ==
  {p \in [0..Len(types) -> QueryIds] :
     /\ p[0] = start
     /\ \A i \in 1..Len(types) : FirstTyped(c, p[i - 1], p[i], types[i])}

(***************************************************************************)
(* C11: navigateByPath follows, for each requested type in order, the first *)
(* action of the current node that has the type and a target; it returns    *)
(* null when some step cannot be taken (node unknown, or no such action)    *)
(* and otherwise the identifier reached after the last step.                *)
(***************************************************************************)
C11_NavigateFirstTyped ==
  out.op = "navigateByPath" =>
    LET walks == TypedWalks(nodeCache, out.arg, out.items)
    IN  IF walks = {}
        THEN ~out.ok /\ out.extra = Null
        ELSE out.ok /\ \A p \in walks : out.extra = p[Len(out.items)]

\* a step from a node with two targeted actions of the requested type that
\* lead to different places: the first is taken
C11_Witness ==
  /\ out.op = "navigateByPath"
  /\ out.ok
  /\ Len(out.items) = 1
  /\ MapHas(nodeCache, out.arg)
  /\ LET acts == MapGet(nodeCache, out.arg).actions
     IN  /\ Len(acts) = 2
         /\ acts[1].type = out.items[1] /\ acts[2].type = out.items[1]
         /\ Truthy(acts[1].node) /\ Truthy(acts[2].node)
         /\ acts[1].node # acts[2].node
         /\ out.extra = acts[1].node

(***************************************************************************)
(* C20: navigateByPath never returns an identifier that is not a node: the  *)
(* result is null or the identifier of a node of the tree.  The code        *)
(* returns currentNodeId after the loop without looking it up, so the       *)
(* statement fails when the last action followed has a dangling target and  *)
(* when the list of types is empty and the start identifier is unknown.     *)
(***************************************************************************)
C20_ResultIsNode ==
  out.op = "navigateByPath" => (~out.ok \/ MapHas(nodeCache, out.extra))

(***************************************************************************)
(* TreeNavigator.getTerminalNodes                                           *)
(***************************************************************************)
\* mutant: only the nodes that are expanded are remembered
VisitExpandedOnly(c, visited, nodeId) ==
  IF MapHas(c, nodeId) /\ MapGet(c, nodeId).isTerminal
  THEN visited ELSE visited \cup {nodeId}

\* visited.add(nodeId)
Visit(c, visited, nodeId) == visited \cup {nodeId}

\* traverse(nodeId) on the closure's state st = (visited, terminals)
RECURSIVE traverse(_, _, _)
RECURSIVE TraverseChildren(_, _, _, _)
traverse(c, st, nodeId) ==
  IF nodeId \in st.visited THEN st
  ELSE LET seen == [st EXCEPT !.visited = Visit(c, @, nodeId)]
       IN  IF ~MapHas(c, nodeId) THEN seen
           ELSE IF MapGet(c, nodeId).isTerminal
           THEN [seen EXCEPT !.terminals = Append(@, nodeId)]
           ELSE TraverseChildren(c, seen, MapGet(c, nodeId).children, 1)

\* node.children.forEach(childId => traverse(childId))
TraverseChildren(c, st, children, i) ==
  IF i > Len(children) THEN st
  ELSE TraverseChildren(c, traverse(c, st, children[i]), children, i + 1)

getTerminalNodes(c, startNodeId) ==
  traverse(c, [visited |-> {}, terminals |-> <<>>], startNodeId).terminals

GetTerminalNodes ==
  /\ Idle
  /\ nodeCache # <<>>
  /\ \E startNodeId \in QueryIds :
       out' = Result("getTerminalNodes", startNodeId, NoTree, TRUE,
                     getTerminalNodes(nodeCache, startNodeId), "")
  /\ UNCHANGED <<nodes, processedNodes, tree, nodeCache, cacheVars>>

\* the nodes reachable from `start` by zero or more children links
ReachableNodes(t, start) ==
  IF MapHas(t.nodes, start) THEN Descendants(t, {start}) ELSE {}

NoRepeats(s) == \A i, j \in DOMAIN s : i # j => s[i] # s[j]

(***************************************************************************)
(* C12: getTerminalNodes returns exactly the terminal nodes reachable from  *)
(* the start by children links (the start included), each once, on trees    *)
(* with shared or cyclic children links too; nothing for an unknown start.  *)
(***************************************************************************)
C12_TerminalsReachableOnce ==
  out.op = "getTerminalNodes" =>
    /\ Range(out.items) =
         {id \in ReachableNodes(tree, out.arg) : MapGet(tree.nodes, id).isTerminal}
    /\ NoRepeats(out.items)
    /\ (~MapHas(tree.nodes, out.arg) => out.items = <<>>)

\* a terminal node that two children entries name is listed, from the root
C12_Witness ==
  /\ out.op = "getTerminalNodes"
  /\ out.arg = tree.root
  /\ \E c \in Range(out.items) : IncomingLinks(tree, c) >= 2

(***************************************************************************)
(* TreeUtils.findShortestPath                                               *)
(***************************************************************************)
QueueItem(nodeId, path) == [nodeId |-> nodeId, path |-> path]

\* the search result: found = FALSE stands for null
PathResult(found, path) == [found |-> found, path |-> path]

\* mutant: the new items are put in front of the queue
PushAllFront(queue, items) == items \o queue

\* queue.push, once per child kept
PushAll(queue, items) == queue \o items

\* the children not yet visited, each with the path extended by it
Unvisited(node, path, visited) ==
  LET kept == SelectSeq(node.children, LAMBDA c : c \notin visited)
  IN  [i \in DOMAIN kept |-> QueueItem(kept[i], Append(path, kept[i]))]

\* the while loop, from a queue and a visited set on
RECURSIVE Search(_, _, _, _)
Search(t, queue, visited, toNodeId) ==
  IF queue = <<>> THEN PathResult(FALSE, <<>>)
  ELSE LET item == Head(queue)
           rest == Tail(queue)
       IN  IF item.nodeId = toNodeId THEN PathResult(TRUE, item.path)
           ELSE IF item.nodeId \in visited THEN Search(t, rest, visited, toNodeId)
           ELSE LET seen == visited \cup {item.nodeId}
                IN  IF ~MapHas(t.nodes, item.nodeId)
                    THEN Search(t, rest, seen, toNodeId)
                    ELSE Search(t,
                                PushAll(rest, Unvisited(MapGet(t.nodes, item.nodeId),
                                                        item.path, seen)),
                                seen, toNodeId)

findShortestPath(t, fromNodeId, toNodeId) ==
  Search(t, <<QueueItem(fromNodeId, <<fromNodeId>>)>>, {}, toNodeId)

\* findShortestPath(tree, fromNodeId, toNodeId): ok = FALSE stands for null
FindShortestPath ==
  /\ Idle
  /\ tree # NoTree
  /\ \E fromNodeId \in QueryIds, toNodeId \in QueryIds :
       LET r == findShortestPath(tree, fromNodeId, toNodeId)
       IN  out' = Result("findShortestPath", fromNodeId, NoTree, r.found,
                         r.path, toNodeId)
  /\ UNCHANGED <<nodes, processedNodes, tree, nodeCache, cacheVars>>

\* b is a children entry of the node a
ChildLink(t, a, b) == MapHas(t.nodes, a) /\ b \in Range(MapGet(t.nodes, a).children)

\* p leads from a to b by children links
LinkPath(t, p, a, b) ==
  /\ Len(p) >= 1
  /\ p[1] = a
  /\ p[Len(p)] = b
  /\ \A i \in 1..(Len(p) - 1) : ChildLink(t, p[i], p[i + 1])

\* the link paths from a to b with fewer than n nodes
ShorterLinkPaths(t, a, b, n) ==
  {p \in UNION {[1..k -> QueryIds] : k \in 1..(n - 1)} : LinkPath(t, p, a, b)}

(***************************************************************************)
(* C13: a path returned by findShortestPath starts with fromId, ends with   *)
(* toId, follows children links at every hop and has the fewest nodes of    *)
(* all such paths; from the root to itself it is the root alone.  (The      *)
(* search ends on every tree: every result here is one it returned.)        *)
(***************************************************************************)
C13_ShortestLinkPath ==
  (out.op = "findShortestPath" /\ out.ok) =>
    /\ LinkPath(tree, out.items, out.arg, out.extra)
    /\ ShorterLinkPaths(tree, out.arg, out.extra, Len(out.items)) = {}
    /\ (out.arg = tree.root /\ out.extra = tree.root => out.items = <<tree.root>>)

\* a two-node path is returned although the first child leads to the target
\* too, by a longer way
C13_Witness ==
  /\ out.op = "findShortestPath"
  /\ out.ok
  /\ Len(out.items) = 2
  /\ \E m \in KeysOf(tree.nodes) \ {out.arg, out.extra} :
       /\ LinkPath(tree, <<out.arg, m, out.extra>>, out.arg, out.extra)
       /\ MapGet(tree.nodes, out.arg).children[1] = m

(***************************************************************************)
(* C14: findShortestPath returns null whenever toId is no node of the tree  *)
(* (fromId = toId and dangling children entries included) and whenever      *)
(* toId is a node that children links do not reach from fromId.  The code   *)
(* compares nodeId with toNodeId before it looks the node up, so the first  *)
(* half fails: an unknown identifier is "reached" from itself and from any  *)
(* node that lists it as a child.                                           *)
(***************************************************************************)
C14_AbsentOrUnreachableIsNull ==
  (/\ out.op = "findShortestPath"
   /\ \/ ~MapHas(tree.nodes, out.extra)
      \/ out.extra \notin ReachableNodes(tree, out.arg))
    => ~out.ok

(***************************************************************************)
(* TreeNavigator.getTreeStats, TreeOptimizer.calculateMetrics               *)
(* (balanceScore and memoryFootprint are not modelled)                      *)
(***************************************************************************)
\* JS numbers that occur: quotients of small integers, NaN and -Infinity
Number(n) == [kind |-> "number", num |-> n, den |-> 1]

NaN == [kind |-> "NaN", num |-> 0, den |-> 0]

NegInfinity == [kind |-> "-Infinity", num |-> 0, den |-> 0]

RECURSIVE Gcd(_, _)
Gcd(a, b) == IF b = 0 THEN a ELSE Gcd(b, a % b)

\* a / b for integers a >= 0, b >= 0, in lowest terms; 0 / 0 is NaN
Quotient(a, b) ==
  IF b = 0 THEN NaN
  ELSE [kind |-> "number", num |-> a \div Gcd(a, b), den |-> b \div Gcd(a, b)]

\* Math.max(...s): -Infinity without arguments
MathMax(s) == IF s = <<>> THEN NegInfinity ELSE Number(SeqMax(s))

\* mutant: every node has a branching factor
BranchingFactorsOfAll(ns) == [i \in DOMAIN ns |-> Len(ns[i].children)]

\* nodes.filter(n => !n.isTerminal).map(n => n.children.length)
BranchingFactors(ns) ==
  LET inner == SelectSeq(ns, LAMBDA n : ~n.isTerminal)
  IN  [i \in DOMAIN inner |-> Len(inner[i].children)]

getTreeStats(c) ==
  LET branchingFactors == BranchingFactors(c)
  IN  [totalNodes |-> Len(c),
       terminalNodes |-> Len(SelectSeq(c, LAMBDA n : n.isTerminal)),
       maxDepth |-> MathMax([i \in DOMAIN c |-> c[i].depth]),
       avgBranchingFactor |->
         Quotient(SeqSum(branchingFactors), Len(branchingFactors)),
       maxBranchingFactor |-> MathMax(branchingFactors),
       nodesWithHandData |-> Len(SelectSeq(c, LAMBDA n : n.hasHandData))]

GetTreeStats ==
  /\ Idle
  /\ nodeCache # <<>>
  /\ out' = Result("getTreeStats", "", NoTree, TRUE, <<>>, getTreeStats(nodeCache))
  /\ UNCHANGED <<nodes, processedNodes, tree, nodeCache, cacheVars>>

\* depthCounts: one counter per depth, integer keys ascending
DepthCounts(ns) ==
  LET depths == {ns[i].depth : i \in DOMAIN ns}
  IN  [d \in depths |-> Cardinality({i \in DOMAIN ns : ns[i].depth = d})]

calculateMetrics(t) ==
  LET branchingFactors == BranchingFactors(t.nodes)
  IN  [avgBranchingFactor |->
         IF Len(branchingFactors) > 0
         THEN Quotient(SeqSum(branchingFactors), Len(branchingFactors))
         ELSE Number(0),
       maxBranchingFactor |->
         IF Len(branchingFactors) > 0 THEN MathMax(branchingFactors) ELSE Number(0),
       nodeDistribution |-> DepthCounts(t.nodes)]

CalculateMetrics ==
  /\ Idle
  /\ tree # NoTree
  /\ out' = Result("calculateMetrics", "", NoTree, TRUE, <<>>, calculateMetrics(tree))
  /\ UNCHANGED <<nodes, processedNodes, tree, nodeCache, cacheVars>>

\* the nodes with isTerminal = false, and all their children entries
InnerNodes(t) == {i \in DOMAIN t.nodes : ~t.nodes[i].isTerminal}

InnerLinks(t) ==
  UNION {{<<i, j>> : j \in DOMAIN t.nodes[i].children} : i \in InnerNodes(t)}

(***************************************************************************)
(* C16: getTreeStats (and calculateMetrics) take the average and the        *)
(* maximum branching factor over the children counts of exactly the nodes   *)
(* with isTerminal = false; totalNodes, terminalNodes and nodesWithHandData *)
(* count all nodes, the terminal ones and the ones with hand data; a root   *)
(* with two terminal children gives 2 for both branching factors.           *)
(***************************************************************************)
C16_BranchingOverInnerNodes ==
  LET inner == InnerNodes(tree)
      st == out.extra
      ids == KeysOf(tree.nodes)
  IN  /\ (out.op \in {"getTreeStats", "calculateMetrics"} /\ inner # {}) =>
           /\ st.avgBranchingFactor.kind = "number"
           /\ st.avgBranchingFactor.num * Cardinality(inner)
                = Cardinality(InnerLinks(tree)) * st.avgBranchingFactor.den
           /\ st.maxBranchingFactor.kind = "number"
           /\ st.maxBranchingFactor.den = 1
           /\ \E i \in inner :
                Len(tree.nodes[i].children) = st.maxBranchingFactor.num
           /\ \A i \in inner :
                Len(tree.nodes[i].children) <= st.maxBranchingFactor.num
      /\ out.op = "getTreeStats" =>
           /\ st.totalNodes = Cardinality(ids)
           /\ st.terminalNodes =
                Cardinality({id \in ids : MapGet(tree.nodes, id).isTerminal})
           /\ st.nodesWithHandData =
                Cardinality({id \in ids : MapGet(tree.nodes, id).hasHandData})
           /\ (/\ Cardinality(ids) = 3
               /\ Len(MapGet(tree.nodes, tree.root).children) = 2
               /\ \A id \in ids \ {tree.root} :
                    MapGet(tree.nodes, id).isTerminal)
                => /\ st.avgBranchingFactor = Number(2)
                   /\ st.maxBranchingFactor = Number(2)

\* the statistics of a root with two terminal children
C16_Witness ==
  /\ out.op = "getTreeStats"
  /\ Len(tree.nodes) = 3
  /\ Len(MapGet(tree.nodes, tree.root).children) = 2
  /\ \A id \in KeysOf(tree.nodes) \ {tree.root} : MapGet(tree.nodes, id).isTerminal
  /\ out.extra.avgBranchingFactor = Number(2)
  /\ out.extra.terminalNodes = 2

(***************************************************************************)
(* TreeOptimizer.createIndexes                                              *)
(***************************************************************************)
Group(key, ids) == [key |-> key, ids |-> ids]

\* mutant: the identifier is put in front of its group
PushIdFront(ids, nodeId) == <<nodeId>> \o ids

\* group.push(nodeId)
PushId(ids, nodeId) == Append(ids, nodeId)

\* if (!groups[key]) groups[key] = []; groups[key].push(nodeId)
\* (the keys are numbers: the object keeps them ascending)
AddToGroup(groups, key, nodeId) ==
  IF \E i \in DOMAIN groups : groups[i].key = key
  THEN [i \in DOMAIN groups |->
          IF groups[i].key = key
          THEN Group(key, PushId(groups[i].ids, nodeId)) ELSE groups[i]]
  ELSE SelectSeq(groups, LAMBDA g : g.key < key)
         \o <<Group(key, PushId(<<>>, nodeId))>>
         \o SelectSeq(groups, LAMBDA g : g.key > key)

\* the forEach over Object.entries(tree.nodes), from the i-th entry on
RECURSIVE IndexFrom(_, _, _)
IndexFrom(t, i, index) ==
  IF i > Len(t.nodes) THEN index
  ELSE LET node == t.nodes[i]
       IN  IndexFrom(t, i + 1,
             [byDepth |-> AddToGroup(index.byDepth, node.depth, node.id),
              byPlayer |-> AddToGroup(index.byPlayer, node.player, node.id),
              terminals |-> IF node.isTerminal
                            THEN Append(index.terminals, node.id)
                            ELSE index.terminals,
              withHandData |-> IF node.hasHandData
                               THEN Append(index.withHandData, node.id)
                               ELSE index.withHandData])

createIndexes(t) ==
  IndexFrom(t, 1, [byDepth |-> <<>>, byPlayer |-> <<>>,
                   terminals |-> <<>>, withHandData |-> <<>>])

CreateIndexes ==
  /\ Idle
  /\ tree # NoTree
  /\ out' = Result("createIndexes", "", NoTree, TRUE, <<>>, createIndexes(tree))
  /\ UNCHANGED <<nodes, processedNodes, tree, nodeCache, cacheVars>>

QueryInit == InitWith(BuildFamily)

QueryNext ==
  \/ Serve
  \/ ConstructNavigator
  \/ GetTerminalNodes
  \/ GetTreeStats
  \/ CalculateMetrics
  \/ CreateIndexes
  \/ FindShortestPath
  \/ TakeResult

QuerySpec == QueryInit /\ [][QueryNext]_vars

\* position of a node in the tree's node iteration
PositionOf(t, id) == CHOOSE i \in DOMAIN t.nodes : t.nodes[i].id = id

\* the places (group, position) of the groups that hold id
PlacesOf(groups, id) ==
  UNION {{<<g, i>> : i \in {k \in DOMAIN groups[g].ids : groups[g].ids[k] = id}} :
           g \in DOMAIN groups}

\* id occurs once in the groups, in the group of the key
OnceUnder(groups, id, key) ==
  /\ Cardinality(PlacesOf(groups, id)) = 1
  /\ \A pl \in PlacesOf(groups, id) : groups[pl[1]].key = key

\* the identifiers keep the relative order of the tree's node iteration
InTreeOrder(t, ids) ==
  \A i, j \in DOMAIN ids : i < j => PositionOf(t, ids[i]) < PositionOf(t, ids[j])

(***************************************************************************)
(* C17: createIndexes partitions the nodes: each identifier occurs once     *)
(* across byDepth, under its depth, and once across byPlayer, under its     *)
(* player; terminals and withHandData hold exactly the isTerminal and the   *)
(* hasHandData identifiers; every group keeps the relative order of the     *)
(* tree's node iteration.                                                   *)
(***************************************************************************)
C17_IndexesPartition ==
  out.op = "createIndexes" =>
    LET ix == out.extra
        ids == KeysOf(tree.nodes)
        node(id) == MapGet(tree.nodes, id)
    IN  /\ \A id \in ids :
             /\ OnceUnder(ix.byDepth, id, node(id).depth)
             /\ OnceUnder(ix.byPlayer, id, node(id).player)
        /\ \A g \in DOMAIN ix.byDepth :
             Range(ix.byDepth[g].ids) \subseteq ids /\ InTreeOrder(tree, ix.byDepth[g].ids)
        /\ \A g \in DOMAIN ix.byPlayer :
             Range(ix.byPlayer[g].ids) \subseteq ids /\ InTreeOrder(tree, ix.byPlayer[g].ids)
        /\ Range(ix.terminals) = {id \in ids : node(id).isTerminal}
        /\ Range(ix.withHandData) = {id \in ids : node(id).hasHandData}
        /\ InTreeOrder(tree, ix.terminals)
        /\ InTreeOrder(tree, ix.withHandData)

\* two nodes of one depth, emitted by the build in the other order than the
\* tree iterates them
C17_Witness ==
  /\ out.op = "createIndexes"
  /\ processedNodes # tree.nodes
  /\ \E g \in DOMAIN out.extra.byDepth : Len(out.extra.byDepth[g].ids) = 2
  /\ Len(out.extra.terminals) = 2

(***************************************************************************)
(* TreeCache: a static Map with a capacity; an entry is (id, value) with    *)
(* the key in `id`                                                          *)
(***************************************************************************)
\* the keys callers use: one more than the cache holds
CacheKeys == {"k" \o NatToString(i) : i \in 1..(maxSize + 1)}

\* the value of a set call: the number of the call since the map was empty
NextValue == NatToString(Len(setLog) + 1)

\* mutant: the entry stored last makes room
EvictNewest(c) == SubSeq(c, 1, Len(c) - 1)

\* this.cache.delete(this.cache.keys().next().value)
EvictFirst(c) == Tail(c)

\* mutant: a lookup moves the entry to the end of the map
AfterLookupTouch(c, key) ==
  IF MapHas(c, key)
  THEN SelectSeq(c, LAMBDA e : e.id # key) \o <<MapGet(c, key)>>
  ELSE c

\* the map after get or has: as before
AfterLookup(c, key) == c

\* mutant: room is made only once the capacity is exceeded
setWhenOver(c, key, value) ==
  MapSet(IF Len(c) > maxSize THEN EvictFirst(c) ELSE c,
         [id |-> key, value |-> value])

set(c, key, value) ==
  MapSet(IF Len(c) >= maxSize THEN EvictFirst(c) ELSE c,
         [id |-> key, value |-> value])

\* TreeCache.set(key, value)
CacheSet ==
  /\ Idle
  /\ Len(setLog) <= maxSize
  /\ \E key \in CacheKeys :
       /\ treeCache' = set(treeCache, key, NextValue)
       /\ setLog' = Append(setLog, key)
       /\ out' = Result("set", key, NoTree, TRUE, <<>>, NextValue)
  /\ UNCHANGED <<nodes, processedNodes, tree, nodeCache>>

\* TreeCache.get(key): ok = FALSE stands for undefined
CacheGet ==
  /\ Idle
  /\ \E key \in CacheKeys :
       /\ out' = Result("get", key, NoTree, MapHas(treeCache, key), <<>>,
                        IF MapHas(treeCache, key)
                        THEN MapGet(treeCache, key).value ELSE Absent)
       /\ treeCache' = AfterLookup(treeCache, key)
  /\ UNCHANGED <<nodes, processedNodes, tree, nodeCache, setLog>>

\* TreeCache.has(key)
CacheHas ==
  /\ Idle
  /\ \E key \in CacheKeys :
       /\ out' = Result("has", key, NoTree, MapHas(treeCache, key), <<>>, "")
       /\ treeCache' = AfterLookup(treeCache, key)
  /\ UNCHANGED <<nodes, processedNodes, tree, nodeCache, setLog>>

\* TreeCache.clear()
CacheClear ==
  /\ Idle
  /\ treeCache # <<>>
  /\ treeCache' = <<>>
  /\ setLog' = <<>>
  /\ out' = Result("clear", "", NoTree, TRUE, <<>>, "")
  /\ UNCHANGED <<nodes, processedNodes, tree, nodeCache>>

\* TreeCache.getStats()
CacheGetStats ==
  /\ Idle
  /\ out' = Result("getStats", "", NoTree, TRUE,
                   [i \in DOMAIN treeCache |-> treeCache[i].id],
                   [size |-> Len(treeCache), maxSize |-> maxSize])
  /\ UNCHANGED <<nodes, processedNodes, tree, nodeCache, cacheVars>>

CacheInit == InitWith({<<>>})

CacheNext ==
  \/ CacheSet
  \/ CacheGet
  \/ CacheHas
  \/ CacheClear
  \/ CacheGetStats
  \/ TakeResult

CacheSpec == CacheInit /\ [][CacheNext]_vars

\* maxSize + 1 distinct keys were set since the cache was empty
FilledOnceOver == Len(setLog) = maxSize + 1 /\ NoRepeats(setLog)

(***************************************************************************)
(* C15: eviction is FIFO by insertion order.  After maxSize + 1 distinct    *)
(* keys were set on an empty cache, whatever get and has calls came in      *)
(* between, exactly the first key set is absent and the others are present; *)
(* and a get or has call leaves the entries and their order as they were.   *)
(***************************************************************************)
C15_FifoEviction ==
  /\ [](FilledOnceOver =>
          KeysOf(treeCache) = Range(setLog) \ {setLog[1]})
  /\ [][out'.op \in {"get", "has"} => treeCache' = treeCache]_vars

\* the first key set was looked up after the cache overflowed: it is gone
C15_Witness ==
  /\ FilledOnceOver
  /\ out.op = "get"
  /\ out.arg = setLog[1]
  /\ ~out.ok

(***************************************************************************)
(* The two copies of formatAmount                                           *)
(***************************************************************************)
\* TreeGenerator.formatAmount
generatorFormatAmount(amount) ==
  IF amount >= 1000000
  THEN LET n == TenthsOfMillions(amount)
       IN  NatToString(n \div 10) \o "." \o Digit[(n % 10) + 1] \o "M"
  ELSE IF amount >= 1000
  THEN NatToString((amount + 500) \div 1000) \o "K"
  ELSE NatToString(amount)

\* the amounts formatted: every amount up to 1100, and every multiple of
\* 500 with its two neighbours
Amounts ==
  (0..1100) \cup
  {a \in {k * 500 + d : k \in 0..MaxAmountSteps, d \in {-1, 0, 1}} : a >= 0}

Formatted(amount, text) == [amount |-> amount, text |-> text]

\* the generator's copy, reached through getActionName
GeneratorFormatAmount ==
  /\ Idle
  /\ \E amount \in Amounts :
       out' = Result("TreeGenerator.formatAmount", "", NoTree, TRUE, <<>>,
                     Formatted(amount, generatorFormatAmount(amount)))
  /\ UNCHANGED <<nodes, processedNodes, tree, nodeCache, cacheVars>>

\* the navigator's copy, reached through formatActionLabel
NavigatorFormatAmount ==
  /\ Idle
  /\ \E amount \in Amounts :
       out' = Result("TreeNavigator.formatAmount", "", NoTree, TRUE, <<>>,
                     Formatted(amount, formatAmount(amount)))
  /\ UNCHANGED <<nodes, processedNodes, tree, nodeCache, cacheVars>>

FormatInit == InitWith({<<>>})

FormatNext ==
  \/ GeneratorFormatAmount
  \/ NavigatorFormatAmount
  \/ TakeResult

FormatSpec == FormatInit /\ [][FormatNext]_vars

\* n is amount / unit rounded to an integer (to a nearest one)
Nearest(n, amount, unit) ==
  /\ 2 * (n * unit - amount) <= unit
  /\ 2 * (amount - n * unit) <= unit

\* the decimal numeral of n tenths, with one decimal
OneDecimal(n) == NatToString(n \div 10) \o "." \o NatToString(n % 10)

WithRoot(t, r) == [t EXCEPT !.root = r]

WithParent(t, nodeId, p) ==
  [t EXCEPT !.nodes = [i \in DOMAIN t.nodes |->
     IF t.nodes[i].id = nodeId THEN [t.nodes[i] EXCEPT !.parentId = p]
     ELSE t.nodes[i]]]

WithDepthOff(t, nodeId) ==
  [t EXCEPT !.nodes = [i \in DOMAIN t.nodes |->
     IF t.nodes[i].id = nodeId THEN [t.nodes[i] EXCEPT !.depth = @ + 1]
     ELSE t.nodes[i]]]

\* one field of t changed: the root, a parentId, a depth, a children list
Damaged(t) ==
  {WithRoot(t, Stray)} \cup
  UNION {{WithParent(t, n, Stray), WithParent(t, n, Null),
          WithDepthOff(t, n), WithChild(t, n, Stray)} : n \in KeysOf(t.nodes)}

\* the built tree with up to two fields changed
DamagedTrees(t) == {t} \cup Damaged(t) \cup UNION {Damaged(u) : u \in Damaged(t)}

ValidateDamaged ==
  /\ Idle
  /\ tree # NoTree
  /\ \E t \in DamagedTrees(tree) :
       LET r == validateTree(t)
       IN  out' = Result("validateTree", "", t, r.isValid, r.errors, "")
  /\ UNCHANGED <<nodes, processedNodes, tree, nodeCache, cacheVars>>

ValidateInit == InitWith(BuildFamily)

ValidateNext ==
  \/ Serve
  \/ ValidateDamaged
  \/ TakeResult

ValidateSpec == ValidateInit /\ [][ValidateNext]_vars

\* the violations of the five checks, as sets of the places they occur at
RootViolations(t) == IF t.root \in KeysOf(t.nodes) THEN {} ELSE {t.root}

ParentViolations(t) ==
  {i \in DOMAIN t.nodes :
     t.nodes[i].parentId # Null /\ t.nodes[i].parentId \notin KeysOf(t.nodes)}

ChildViolations(t) ==
  UNION {{<<i, j>> : j \in {k \in DOMAIN t.nodes[i].children :
                              t.nodes[i].children[k] \notin KeysOf(t.nodes)}} :
           i \in DOMAIN t.nodes}

ActionViolations(t) ==
  UNION {{<<i, j>> : j \in {k \in DOMAIN t.nodes[i].actions :
                              /\ t.nodes[i].actions[k].node # Absent
                              /\ t.nodes[i].actions[k].node \notin KeysOf(t.nodes)}} :
           i \in DOMAIN t.nodes}

DepthViolations(t) ==
  {i \in DOMAIN t.nodes :
     /\ t.nodes[i].parentId \in KeysOf(t.nodes)
     /\ t.nodes[i].depth # MapGet(t.nodes, t.nodes[i].parentId).depth + 1}

(***************************************************************************)
(* C19: validateTree reports every violation: isValid holds exactly when    *)
(* the root is a node, every non-null parentId, every children entry and    *)
(* every action target is a node, and every node whose parent exists is one *)
(* level below it; errors has one entry per violation of these five checks. *)
(***************************************************************************)
C19_AllViolationsReported ==
  out.op = "validateTree" =>
    LET t == out.t
    IN  /\ out.ok <=>
             /\ RootViolations(t) = {}
             /\ ParentViolations(t) = {}
             /\ ChildViolations(t) = {}
             /\ ActionViolations(t) = {}
             /\ DepthViolations(t) = {}
        /\ Len(out.items) =
             Cardinality(RootViolations(t)) + Cardinality(ParentViolations(t))
               + Cardinality(ChildViolations(t)) + Cardinality(ActionViolations(t))
               + Cardinality(DepthViolations(t))

\* a tree with a missing root and a node off its parent's depth: two errors
C19_Witness ==
  /\ out.op = "validateTree"
  /\ ~out.ok
  /\ RootViolations(out.t) # {}
  /\ DepthViolations(out.t) # {}
  /\ Len(out.items) = 2

(***************************************************************************)
(* TreeCache under any sequence of calls: set with any key and value, as    *)
(* often as the caller likes                                                *)
(***************************************************************************)
\* the values stored
CacheValues == {"v", "w"}

\* TreeCache.set(key, value); the result keeps the entries before the call
CachePut ==
  /\ Idle
  /\ \E key \in CacheKeys, value \in CacheValues :
       /\ treeCache' = set(treeCache, key, value)
       /\ out' = Result("set", key, NoTree, TRUE, treeCache, value)
  /\ UNCHANGED <<nodes, processedNodes, tree, nodeCache, setLog>>

StoreInit == InitWith({<<>>})

StoreNext ==
  \/ CachePut
  \/ CacheGet
  \/ CacheHas
  \/ CacheClear
  \/ CacheGetStats
  \/ TakeResult

StoreSpec == StoreInit /\ [][StoreNext]_vars

(***************************************************************************)
(* C21: whatever calls were made, the cache never holds more than maxSize   *)
(* entries, and right after set(k, v) the key k is present and a get(k)     *)
(* returns v.                                                               *)
(***************************************************************************)
C21_BoundedAndStored ==
  /\ Len(treeCache) <= maxSize
  /\ NoRepeats([i \in DOMAIN treeCache |-> treeCache[i].id])
  /\ out.op = "set" =>
       /\ MapHas(treeCache, out.arg)
       /\ MapGet(treeCache, out.arg).value = out.extra

\* a set on a full cache: the cache is still full, the key is in
C21_Witness ==
  /\ out.op = "set"
  /\ Len(out.items) = maxSize
  /\ ~MapHas(out.items, out.arg)
  /\ Len(treeCache) = maxSize
  /\ MapHas(treeCache, out.arg)

(***************************************************************************)
(* C22: on a cache that holds maxSize entries, set(k, v) removes the entry  *)
(* inserted first before it writes, also when k is present: then another    *)
(* key (the oldest) goes, maxSize - 1 entries remain and k stays at its     *)
(* place in the insertion order; when k is the oldest entry itself it goes  *)
(* and comes back as the newest.                                            *)
(***************************************************************************)
C22_FullCacheOverwriteEvicts ==
  (out.op = "set" /\ Len(out.items) = maxSize) =>
    LET before == out.items
        stored == [id |-> out.arg, value |-> out.extra]
    IN  IF out.arg = before[1].id \/ ~MapHas(before, out.arg)
        THEN treeCache = Tail(before) \o <<stored>>
        ELSE /\ Len(treeCache) = maxSize - 1
             /\ ~MapHas(treeCache, before[1].id)
             /\ treeCache = [i \in 1..(maxSize - 1) |->
                               IF before[i + 1].id = out.arg
                               THEN stored ELSE before[i + 1]]

\* a key that is present, and not the oldest, was overwritten in a full
\* cache: one entry fewer, the key not at the end
C22_Witness ==
  /\ out.op = "set"
  /\ Len(out.items) = maxSize
  /\ MapHas(out.items, out.arg)
  /\ out.arg # out.items[1].id
  /\ Len(treeCache) = maxSize - 1
  /\ treeCache[Len(treeCache)].id # out.arg

(***************************************************************************)
(* Builds of collections whose action targets form cycles                   *)
(***************************************************************************)
\* the identifier reached from id by n parentId links; Stray when the links
\* end before
RECURSIVE HopsUp(_, _, _)
HopsUp(t, id, n) ==
  IF n = 0 THEN id
  ELSE IF ~MapHas(t.nodes, id) \/ MapGet(t.nodes, id).parentId = Null THEN Stray
  ELSE HopsUp(t, MapGet(t.nodes, id).parentId, n - 1)

\* some record has an action that targets the record itself or one it is
\* reached through
TargetsCycle(m) ==
  \E id \in Reached(m) : id \in ReachableFrom(m, TargetsOf(MapGet(m, id)) \cap KeysOf(m))

(***************************************************************************)
(* C23: the build ends on every collection, cyclic ones included, and each  *)
(* record is processed at most once: no identifier is emitted twice, no     *)
(* node is emitted for anything but a record, and a record met again keeps  *)
(* the node of its first visit (the root keeps its null parent and depth 0, *)
(* and `depth` parent links lead from every node to the root).              *)
(***************************************************************************)
C23_CyclesProcessedOnce ==
  Returned =>
    /\ NoRepeats([i \in DOMAIN processedNodes |-> processedNodes[i].id])
    /\ KeysOf(processedNodes) \subseteq KeysOf(nodes)
    /\ Len(processedNodes) <= Len(nodes)
    /\ MapGet(tree.nodes, tree.root).parentId = Null
    /\ MapGet(tree.nodes, tree.root).depth = 0
    /\ \A i \in DOMAIN tree.nodes :
         HopsUp(tree, tree.nodes[i].id, tree.nodes[i].depth) = tree.root

\* a tree was returned for a collection in which a record below the root
\* targets itself and the root
C23_Witness ==
  /\ Returned
  /\ TargetsCycle(nodes)
  /\ \E i \in DOMAIN tree.nodes :
       /\ tree.nodes[i].id # tree.root
       /\ tree.nodes[i].id \in Range(tree.nodes[i].children)
       /\ tree.root \in Range(tree.nodes[i].children)

(***************************************************************************)
(* TreeOptimizer.compressTree (the nodes' sequence, street and path are not *)
(* modelled)                                                                *)
(***************************************************************************)
\* compressActions: type and amount, and the target when there is one
CompressAction(a) ==
  [type |-> a.type, amount |-> a.amount,
   node |-> IF Truthy(a.node) THEN a.node ELSE Absent]

\* the compressed version of a node: a new object with the node's fields
CompressNode(node) ==
  [id |-> node.id,
   parentId |-> node.parentId,
   player |-> node.player,
   actions |-> [i \in DOMAIN node.actions |-> CompressAction(node.actions[i])],
   children |-> node.children,
   depth |-> node.depth,
   isTerminal |-> node.isTerminal,
   hasHandData |-> node.hasHandData]

\* { ...tree, nodes: compressedNodes }
compressTree(t) ==
  [t EXCEPT !.nodes = ObjectOrder([i \in DOMAIN t.nodes |-> CompressNode(t.nodes[i])])]

CompressTree ==
  /\ Idle
  /\ tree # NoTree
  /\ out' = Result("compressTree", "", compressTree(tree), TRUE, <<>>, "")
  /\ UNCHANGED <<nodes, processedNodes, tree, nodeCache, cacheVars>>

FrameInit == InitWith(BuildFamily)

FrameNext ==
  \/ Serve
  \/ ConstructNavigator
  \/ GetNavigationPath
  \/ NavigateByPath
  \/ GetTerminalNodes
  \/ GetTreeStats
  \/ FindShortestPath
  \/ ValidateTree
  \/ CreateIndexes
  \/ CalculateMetrics
  \/ CompressTree
  \/ TakeResult

FrameSpec == FrameInit /\ [][FrameNext]_vars

\* the operations that are handed a built tree
ReadingOps ==
  {"getNavigationPath", "navigateByPath", "getTerminalNodes", "getTreeStats",
   "findShortestPath", "validateTree", "createIndexes", "calculateMetrics",
   "compressTree"}

\* the fields of a node the statement is about
Structure(node) ==
  [id |-> node.id, parentId |-> node.parentId, actions |-> node.actions,
   children |-> node.children, depth |-> node.depth,
   isTerminal |-> node.isTerminal]

SameStructure(t, u) ==
  /\ Len(t.nodes) = Len(u.nodes)
  /\ \A i \in DOMAIN t.nodes : Structure(t.nodes[i]) = Structure(u.nodes[i])

(***************************************************************************)
(* C24: a built tree is not mutated after construction: the construction of *)
(* a navigator and every call of getNavigationPath, navigateByPath,         *)
(* getTerminalNodes, getTreeStats, findShortestPath, validateTree,          *)
(* createIndexes, calculateMetrics and compressTree leave the id, parentId, *)
(* actions, children, depth and isTerminal of every node as they were.      *)
(***************************************************************************)
C24_TreeNotMutated ==
  [][(out'.op \in ReadingOps \/ nodeCache' # nodeCache)
       => SameStructure(tree, tree')]_vars

\* a tree with a dangling children entry was compressed, with a navigator
\* over it: the copy returned and the tree agree
C24_Witness ==
  /\ out.op = "compressTree"
  /\ nodeCache = tree.nodes
  /\ Len(tree.nodes) >= 2
  /\ \E i \in DOMAIN tree.nodes :
       Range(tree.nodes[i].children) \ KeysOf(tree.nodes) # {}
  /\ SameStructure(out.t, tree)

(***************************************************************************)
(* Builds of collections in which a target may be a number                  *)
(***************************************************************************)
\* the collection m with the target of one action replaced by a number
Retarget(m, i, j) ==
  [m EXCEPT ![i].actions[j].node = NumberTarget]

\* record "0" first with the only empty sequence, plain actions, at most
\* one target that is no string
TypedFamily ==
  BuildFamily \cup
  UNION {UNION {{Retarget(m, i, j) : j \in DOMAIN m[i].actions} :
                  i \in DOMAIN m} :
           m \in BuildFamily}

MetaInit == InitWith(TypedFamily)

MetaNext ==
  \/ GenerateTree
  \/ Serve
  \/ TakeResult

MetaSpec == MetaInit /\ [][MetaNext]_vars

\* the targets of the actions that carry one, in action order
TargetsCarried(actions) ==
  LET carrying == SelectSeq(actions, LAMBDA a : a.node # Absent)
  IN  [i \in DOMAIN carrying |-> carrying[i].node]

\* the metadata and maxDepth of t agree with its nodes
MetadataAgrees(t) ==
  /\ t.metadata.totalNodes = Cardinality(KeysOf(t.nodes))
  /\ t.metadata.totalNodes = Len(t.nodes)
  /\ t.metadata.terminalNodes =
       Cardinality({i \in DOMAIN t.nodes : t.nodes[i].isTerminal})
  /\ \E i \in DOMAIN t.nodes : t.nodes[i].depth = t.maxDepth
  /\ \A i \in DOMAIN t.nodes : t.nodes[i].depth <= t.maxDepth

(***************************************************************************)
(* C25: the metadata of a returned tree agrees with its nodes (totalNodes,  *)
(* terminalNodes, maxDepth), the children of every node are exactly the     *)
(* targets of its actions that carry a target, in action order, and         *)
(* isTerminal holds exactly when there are none.  The build takes only the  *)
(* targets that are strings into children but copies every truthy target    *)
(* into the node's action, so an action with a numeric target is carried    *)
(* by a node whose children do not list it.                                 *)
(***************************************************************************)
C25_MetadataAndChildrenAgree ==
  Returned =>
    /\ MetadataAgrees(tree)
    /\ \A i \in DOMAIN tree.nodes :
         /\ tree.nodes[i].children = TargetsCarried(tree.nodes[i].actions)
         /\ tree.nodes[i].isTerminal <=> tree.nodes[i].children = <<>>
====
